---- MODULE Spec2Model ----
(***************************************************************************)
(* Model of the patch-metrics engine of swe-bench-zeno:                    *)
(*   analysis/metrics/metrics.py       Metrics arithmetic, fragment parser *)
(*   analysis/metrics/*_metrics.py     the four extractors                 *)
(*   analysis/metrics/apply_metrics.py the per-patch pipeline              *)
(*   analysis/models/patch.py          the patch parser                    *)
(*   analysis/features.py              the batch driver                    *)
(*                                                                         *)
(* Source text is modelled as the sequence of its lines (str.split on a    *)
(* newline): a Python fragment line is [ind, kind], where ind is the       *)
(* number of leading spaces and kind names the statement the line holds:   *)
(*   "blank"  an empty or whitespace-only line                             *)
(*   "pass"   pass                                                         *)
(*   "call"   g()                                                          *)
(*   "raise"  raise                                                        *)
(*   "ann"    x: int = 1                                                   *)
(*   "anngen" x: List = []       "annopt" x: Optional = None               *)
(*   "annunion" x: Union = 1     "anncall" x: Callable = f                 *)
(*   "annsub" x: List[int] = []  "annoptsub" x: Optional[str] = None       *)
(*   "if"     if c:            (header of a control-flow block)            *)
(*   "def"    def f():         (header of a function definition)           *)
(*   "lpar"   x = (1,          (statement left open inside a bracket)      *)
(*   "rpar"   2)               (the line closing that bracket)             *)
(*   "bad"    !!!              (punctuation only)                          *)
(*   "try"    try: g()         (try with its body on the line)             *)
(*   "tryblk" try:             (try with an indented body)                 *)
(*   "except" except Exception: pass      (handler of the try before it)   *)
(*   "exceptbare" except: pass            "exceptval" except ValueError: pass *)
(***************************************************************************)
EXTENDS Integers, Sequences, FiniteSets, TLC

VARIABLES call, ret, attempt, tried, idx, rows, reported

vars == <<call, ret, attempt, tried, idx, rows, reported>>

parseVars == <<attempt, tried>>

batchVars == <<idx, rows, reported>>

\* ------------------------------------------------------------------ bounds

MaxLines == 3
MaxIndent == 1

\* the four spaces of textwrap.indent(x, '    ')
IndentWidth == 4

\* ------------------------------------------------------------------ text

Blank == [ind |-> 0, kind |-> "blank"]

\* the empty string: "".split("\n") is one empty line
EmptyStr == <<Blank>>

Ln(i, k) == [ind |-> i, kind |-> k]

IsBlank(l) == l.kind = "blank"

Max(a, b) == IF a >= b THEN a ELSE b

Min(a, b) == IF a <= b THEN a ELSE b

RECURSIVE SeqMin(_)
SeqMin(s) ==
  IF Len(s) = 1 THEN s[1] ELSE Min(s[1], SeqMin(Tail(s)))

RECURSIVE SelectSeqOf(_, _)
\* [x for x in s if x has one of the kinds]
SelectSeqOf(s, kinds) ==
  IF s = <<>> THEN <<>>
  ELSE (IF s[1].kind \in kinds THEN <<s[1]>> ELSE <<>>) \o SelectSeqOf(Tail(s), kinds)

CountKind(s, kinds) == Len(SelectSeqOf(s, kinds))

NonBlank(code) ==
  SelectSeqOf(code, {"pass", "call", "raise", "ann", "if", "def", "lpar", "rpar", "bad",
                     "anngen", "annopt", "annunion", "anncall", "annsub", "annoptsub",
                     "try", "tryblk", "except", "exceptbare", "exceptval"})

\* ------------------------------------------------------------- ast.parse

ParseFail == [ok |-> FALSE, body |-> <<>>]

Node(k, lvl, line) == [kind |-> k, level |-> lvl, lineno |-> line, end_lineno |-> line]

RECURSIVE PopTo(_, _)
\* the tokenizer's DEDENT: pop the indentation stack down to column ind
PopTo(stack, ind) ==
  IF stack[Len(stack)] > ind THEN PopTo(SubSeq(stack, 1, Len(stack) - 1), ind)
  ELSE stack

\* the lines that open an exception block, and its handler clauses
TryKinds == {"try", "tryblk"}
HandlerKinds == {"except", "exceptbare", "exceptval"}

RECURSIVE NextClause(_, _, _)
\* the first line from i on that is a statement at column ind or to the left of
\* it (blank lines and the closing line of a bracket are none), 0 if there is none
NextClause(code, i, ind) ==
  IF i > Len(code) THEN 0
  ELSE IF IsBlank(code[i]) \/ code[i].kind = "rpar" \/ code[i].ind > ind
    THEN NextClause(code, i + 1, ind)
  ELSE i

RECURSIVE PrevClause(_, _, _)
\* the last such line up to i, 0 if there is none
PrevClause(code, i, ind) ==
  IF i < 1 THEN 0
  ELSE IF IsBlank(code[i]) \/ code[i].kind = "rpar" \/ code[i].ind > ind
    THEN PrevClause(code, i - 1, ind)
  ELSE i

\* a try needs a handler after its body, at its indentation; a handler needs the
\* try, or another handler of it, before it (that a bare handler comes last is
\* checked by the compiler, not by ast.parse)
ClauseOk(code, i) ==
  CASE code[i].kind \in TryKinds ->
         /\ NextClause(code, i + 1, code[i].ind) # 0
         /\ code[NextClause(code, i + 1, code[i].ind)].kind \in HandlerKinds
         /\ code[NextClause(code, i + 1, code[i].ind)].ind = code[i].ind
    [] code[i].kind \in HandlerKinds ->
         /\ PrevClause(code, i - 1, code[i].ind) # 0
         /\ code[PrevClause(code, i - 1, code[i].ind)].kind \in TryKinds \cup HandlerKinds
         /\ code[PrevClause(code, i - 1, code[i].ind)].ind = code[i].ind
    [] OTHER -> TRUE

\* the nodes of a line, in pre-order: the statement, and for an inline try its
\* call, for a handler its inline pass
NodesOf(l, lvl, i) ==
  CASE l.kind = "try" -> <<Node("try", lvl, i), Node("call", lvl + 1, i)>>
    [] l.kind = "tryblk" -> <<Node("try", lvl, i)>>
    [] l.kind \in HandlerKinds -> <<Node(l.kind, lvl + 1, i), Node("pass", lvl + 2, i)>>
    [] OTHER -> <<Node(l.kind, lvl, i)>>

RECURSIVE ParseLines(_, _, _, _, _, _)
\* Python's parse of the lines from i on: stack is the tokenizer's indentation
\* stack, expect says a block header awaits its indented body, open says a
\* bracket is open (indentation and newlines are ignored inside it); nodes is the
\* tree so far, in pre-order, each node with its block level.
ParseLines(code, i, stack, expect, open, nodes) ==
  IF i > Len(code) THEN
    IF expect \/ open THEN ParseFail ELSE [ok |-> TRUE, body |-> nodes]
  ELSE LET l == code[i] IN
    IF IsBlank(l) THEN ParseLines(code, i + 1, stack, expect, open, nodes)
    ELSE IF open THEN
      IF l.kind = "rpar"
        THEN ParseLines(code, i + 1, stack, FALSE, FALSE,
               [nodes EXCEPT ![Len(nodes)].end_lineno = i])
        ELSE ParseFail
    ELSE
      LET top == stack[Len(stack)]
          st == IF expect THEN Append(stack, l.ind) ELSE PopTo(stack, l.ind)
          indentOk == IF expect THEN l.ind > top ELSE st[Len(st)] = l.ind
          lvl == Len(st) - 1
      IN IF ~indentOk \/ l.kind \in {"bad", "rpar"} \/ ~ClauseOk(code, i) THEN ParseFail
         ELSE ParseLines(code, i + 1, st, l.kind \in {"if", "def", "tryblk"}, l.kind = "lpar",
                nodes \o NodesOf(l, lvl, i))

\* ast.parse(code)
AstParse(code) == ParseLines(code, 1, <<0>>, FALSE, FALSE, <<>>)

\* -------------------------------------------------- fragment parser (4.2)

\* textwrap.dedent: blank lines are normalised and do not count for the margin
Dedent(code) ==
  LET margin == SeqMin([j \in 1..Len(NonBlank(code)) |-> NonBlank(code)[j].ind])
  IN [j \in 1..Len(code) |->
        IF IsBlank(code[j]) THEN Blank ELSE Ln(code[j].ind - margin, code[j].kind)]

normalize_indentation(code) ==
  IF code = EmptyStr THEN code
  ELSE IF NonBlank(code) = <<>> THEN code
  ELSE Dedent(code)

\* textwrap.indent(x, '    '): whitespace-only lines get no prefix
Indent(code) ==
  [j \in 1..Len(code) |->
     IF IsBlank(code[j]) THEN code[j] ELSE Ln(code[j].ind + IndentWidth, code[j].kind)]

attempts_reordered == <<"asis", "ifwrap", "dedent", "defwrap">>

\* the list of transformations, in the order they are tried
attempts == <<"asis", "dedent", "ifwrap", "defwrap">>

Transform(name, code) ==
  CASE name = "asis" -> code
    [] name = "dedent" -> normalize_indentation(code)
    [] name = "ifwrap" -> <<Ln(0, "if")>> \o Indent(code)
    [] name = "defwrap" -> <<Ln(0, "def")>> \o Indent(code)

RECURSIVE SalvageFrom(_, _)
\* the line-by-line loop: each stripped non-blank line is parsed on its own and
\* its statements, if any, are collected
SalvageFrom(code, i) ==
  IF i > Len(code) THEN <<>>
  ELSE LET line == Ln(0, code[i].kind)
           tree == AstParse(<<line>>)
       IN (IF ~IsBlank(line) /\ tree.ok /\ tree.body # <<>> THEN tree.body ELSE <<>>)
          \o SalvageFrom(code, i + 1)

\* a salvage that gives up as soon as one line does not parse
Salvage_strict(code) ==
  IF \E j \in 1..Len(code) : ~IsBlank(code[j]) /\ ~AstParse(<<Ln(0, code[j].kind)>>).ok
    THEN [raised |-> "ValueError", via |-> "none", body |-> <<>>]
    ELSE [raised |-> "none", via |-> "salvage", body |-> SalvageFrom(code, 1)]

Salvage(code) ==
  LET valid_nodes == SalvageFrom(code, 1)
  IN IF valid_nodes # <<>>
       THEN [raised |-> "none", via |-> "salvage", body |-> valid_nodes]
       ELSE [raised |-> "ValueError", via |-> "none", body |-> <<>>]

RECURSIVE TryFrom(_, _)
TryFrom(code, n) ==
  IF n > Len(attempts) THEN Salvage(code)
  ELSE LET tree == AstParse(Transform(attempts[n], code))
       IN IF tree.ok THEN [raised |-> "none", via |-> attempts[n], body |-> tree.body]
          ELSE TryFrom(code, n + 1)

\* parse_code_fragment(code): the tree, the strategy that produced it, or the
\* ValueError raised when every strategy failed
parse_code_fragment(code) == TryFrom(code, 1)

\* ------------------------------------------------------ metric records

CodeFields ==
  {"number_of_functions", "number_of_classes", "number_of_methods", "max_nested_depth",
   "number_of_lines", "number_of_comment_lines", "number_of_docstring_lines",
   "number_of_control_statements", "number_of_variables", "max_function_length",
   "number_of_function_parameters", "number_of_returns", "number_of_imports",
   "number_of_decorators"}

TypeFields ==
  {"number_of_type_annotations", "number_of_generic_types", "number_of_union_types",
   "number_of_optional_types", "number_of_callable_types", "number_of_custom_types"}

ErrorFields ==
  {"number_of_try_blocks", "number_of_except_handlers", "number_of_finally_blocks",
   "number_of_raise_statements", "max_except_depth", "number_of_broad_excepts",
   "number_of_specific_excepts"}

DependencyFields ==
  {"number_of_function_calls", "number_of_unique_calls", "max_call_depth",
   "number_of_circular_dependencices", "import_depth", "number_of_internal_dependencies",
   "number_of_external_dependencies"}

\* the int-typed fields of each variant (CodeMetrics.average_function_length, the
\* one float, is left out of the model)
Fields(variant) ==
  CASE variant = "code" -> CodeFields
    [] variant = "type" -> TypeFields
    [] variant = "error" -> ErrorFields
    [] variant = "dependency" -> DependencyFields

\* metric(): every field at its default
Metric(variant) == [variant |-> variant, vals |-> [f \in Fields(variant) |-> 0]]

Returned(v) == [raised |-> "none", value |-> v]

Raised(e) == [raised |-> e, value |-> <<>>]

\* the fields of a record that hold None; the records the extractors build hold
\* none
Nones(m) == IF "nones" \in DOMAIN m THEN m.nones ELSE {}

\* type(self)(**new_values): every field is declared int or float, so the
\* validation of the constructor refuses a None among the values
New(variant, vals, nones) ==
  IF nones # {} THEN Raised("ValidationError")
  ELSE Returned([variant |-> variant, vals |-> vals])

\* an addition that takes the fields the two records share and keeps the rest
Add_coercing(a, b) ==
  Returned([variant |-> a.variant,
            vals |-> [f \in DOMAIN a.vals |->
                        IF f \in DOMAIN b.vals THEN a.vals[f] + b.vals[f] ELSE a.vals[f]]])

\* an addition in which the left operand's depth and length fields win
Add_leftwins(a, b) ==
  IF b.variant # a.variant THEN Raised("TypeError")
  ELSE New(a.variant,
           [f \in DOMAIN a.vals |->
              IF f \in {"max_nested_depth", "max_function_length", "max_except_depth"}
                   /\ a.vals[f] > 0
                THEN a.vals[f] ELSE a.vals[f] + b.vals[f]],
           Nones(a) \cup Nones(b))

\* Metrics.__add__
Add(a, b) ==
  IF b.variant # a.variant THEN Raised("TypeError")
  ELSE New(a.variant, [f \in DOMAIN a.vals |-> a.vals[f] + b.vals[f]],
           Nones(a) \cup Nones(b))

\* a subtraction that never goes below zero
Sub_clamped(a, b) ==
  IF b.variant # a.variant THEN Raised("TypeError")
  ELSE Returned([variant |-> a.variant,
                 vals |-> [f \in DOMAIN a.vals |-> Max(0, a.vals[f] - b.vals[f])]])

\* Metrics.__sub__
Sub(a, b) ==
  IF b.variant # a.variant THEN Raised("TypeError")
  ELSE New(a.variant, [f \in DOMAIN a.vals |-> a.vals[f] - b.vals[f]],
           Nones(a) \cup Nones(b))

\* Metrics.__abs__
Abs(a) ==
  New(a.variant, [f \in DOMAIN a.vals |-> IF a.vals[f] < 0 THEN 0 - a.vals[f] ELSE a.vals[f]],
      Nones(a))

\* Metrics.to_dict(prefix, suffix): the key "prefix/field/suffix" is the triple
to_dict(m, prefix, suffix) ==
  [key \in {<<prefix, f, suffix>> : f \in DOMAIN m.vals} |-> m.vals[key[2]]]

\* ------------------------------------------------------ Structure visitor

\* the annotated assignments: of a name (int, List, Optional, Union, Callable)
\* and of a subscript (List[int], Optional[str])
AnnKinds == {"ann", "anngen", "annopt", "annunion", "anncall", "annsub", "annoptsub"}

ControlFlowNodes == {"if", "try"}

RECURSIVE SeqMax(_)
SeqMax(s) == IF s = <<>> THEN 0 ELSE Max(s[1], SeqMax(Tail(s)))

RECURSIVE EndLineno(_, _, _)
\* node.end_lineno of the block header at i: the last line of its last descendant
EndLineno(nodes, i, j) ==
  IF j > Len(nodes) \/ nodes[j].level <= nodes[i].level THEN nodes[i].end_lineno
  ELSE Max(nodes[j].end_lineno, EndLineno(nodes, i, j + 1))

\* StructureVisitor._reset
StructureReset ==
  [current_depth |-> 0, max_nested_depth |-> 0, number_of_control_statements |-> 0,
   number_of_functions |-> 0, function_lines |-> <<>>, variables |-> {}]

\* a visit that records the depth of the node entered as the maximum
StructureEnter_lastdepth(nodes, i, s, depth) ==
  IF nodes[i].kind \in ControlFlowNodes
    THEN [s EXCEPT !.number_of_control_statements = @ + 1,
                   !.current_depth = depth + 1,
                   !.max_nested_depth = depth + 1]
    ELSE [s EXCEPT !.current_depth = depth]

\* StructureVisitor.visit up to super().visit(node), with the visit_ method of
\* the node, on entering node i at depth depth
StructureEnter(nodes, i, s, depth) ==
  LET n == nodes[i]
      s1 == IF n.kind \in ControlFlowNodes
              THEN [s EXCEPT !.number_of_control_statements = @ + 1,
                             !.current_depth = depth + 1,
                             !.max_nested_depth = Max(@, depth + 1)]
              ELSE [s EXCEPT !.current_depth = depth]
      s2 == IF n.kind = "def"
              THEN [s1 EXCEPT !.number_of_functions = @ + 1,
                              !.function_lines =
                                 Append(@, EndLineno(nodes, i, i + 1) - n.lineno + 1)]
              ELSE s1
  IN IF n.kind \in AnnKinds \cup {"lpar"}
       THEN [s2 EXCEPT !.variables = @ \cup {"x"}]
       ELSE s2

\* a walk that never takes the depth down again when it leaves a node
StructureVisit_flat(nodes, i, path, s) ==
  [s EXCEPT !.number_of_control_statements = CountKind(nodes, ControlFlowNodes),
            !.max_nested_depth = CountKind(nodes, ControlFlowNodes),
            !.number_of_functions = CountKind(nodes, {"def"})]

RECURSIVE StructureVisit(_, _, _, _)
\* StructureVisitor.visit over the tree in pre-order; path holds the nodes still
\* open (the ancestors of the node being entered). Leaving a control-flow node
\* takes one off current_depth.
StructureVisit(nodes, i, path, s) ==
  IF i > Len(nodes) THEN
    [s EXCEPT !.current_depth = @ - CountKind(path, ControlFlowNodes)]
  ELSE
    LET n == nodes[i]
        kept == SubSeq(path, 1, n.level)
        left == SubSeq(path, n.level + 1, Len(path))
    IN StructureVisit(nodes, i + 1, Append(kept, n),
         StructureEnter(nodes, i, s, s.current_depth - CountKind(left, ControlFlowNodes)))

\* extract_file_metrics (CodeMetrics.from_str)
extract_file_metrics(code) ==
  LET tree == parse_code_fragment(code)
  IN IF tree.raised # "none" THEN Returned(Metric("code"))
     ELSE LET visitor == StructureVisit(tree.body, 1, <<>>, StructureReset)
          IN Returned([variant |-> "code",
               vals |-> [f \in CodeFields |->
                 CASE f = "number_of_functions" -> visitor.number_of_functions
                   [] f = "number_of_control_statements" ->
                        visitor.number_of_control_statements
                   [] f = "max_nested_depth" -> visitor.max_nested_depth
                   [] f = "number_of_variables" -> Cardinality(visitor.variables)
                   [] f = "number_of_lines" -> Len(code)
                   [] f = "max_function_length" -> SeqMax(visitor.function_lines)
                   [] OTHER -> 0]])

\* ----------------------------------------------------------- Type visitor

\* extract_type_metrics (TypeMetrics.from_str): ast.parse, not the tolerant parser
extract_type_metrics(code) ==
  LET tree == AstParse(code)
  IN IF ~tree.ok THEN Returned(Metric("type"))
     ELSE Returned([variant |-> "type",
            vals |-> [f \in TypeFields |->
              CASE f = "number_of_type_annotations" -> CountKind(tree.body, AnnKinds)
                \* only an annotation that is a name has an id and a bucket
                [] f = "number_of_generic_types" -> CountKind(tree.body, {"anngen"})
                [] f = "number_of_optional_types" -> CountKind(tree.body, {"annopt"})
                [] f = "number_of_union_types" -> CountKind(tree.body, {"annunion"})
                [] f = "number_of_callable_types" -> CountKind(tree.body, {"anncall"})
                [] f = "number_of_custom_types" -> CountKind(tree.body, {"ann"})
                [] OTHER -> 0]])

\* ---------------------------------------------------------- Error visitor

\* ErrorMetricsVisitor.__init__
ErrorReset ==
  [current_except_depth |-> 0, max_except_depth |-> 0, number_of_try_blocks |-> 0,
   number_of_except_handlers |-> 0, number_of_broad_excepts |-> 0,
   number_of_specific_excepts |-> 0, number_of_raise_statements |-> 0]

\* a classification that takes only the bare clause for broad
IsBroad_bareonly(kind) == kind = "exceptbare"

\* handler.type is None or handler.type.id == 'Exception'
IsBroad(kind) == kind \in {"exceptbare", "except"}

RECURSIVE Handlers(_, _, _)
\* node.handlers of the try at i: the handler nodes right below it, from j on
Handlers(nodes, i, j) ==
  IF j > Len(nodes) \/ nodes[j].level <= nodes[i].level THEN <<>>
  ELSE (IF nodes[j].level = nodes[i].level + 1 /\ nodes[j].kind \in HandlerKinds
          THEN <<nodes[j].kind>> ELSE <<>>)
       \o Handlers(nodes, i, j + 1)

\* the handlers of the kinds that are broad
BroadAmong(handlers) == Len(SelectSeq(handlers, IsBroad))

\* visit_Try up to generic_visit and visit_Raise, on entering node i at depth
\* depth
ErrorEnter(nodes, i, s, depth) ==
  CASE nodes[i].kind = "try" ->
         [s EXCEPT !.number_of_try_blocks = @ + 1,
                   !.current_except_depth = depth + 1,
                   !.max_except_depth = Max(@, depth + 1),
                   !.number_of_except_handlers = @ + Len(Handlers(nodes, i, i + 1)),
                   !.number_of_broad_excepts = @ + BroadAmong(Handlers(nodes, i, i + 1)),
                   !.number_of_specific_excepts =
                      @ + Len(Handlers(nodes, i, i + 1))
                        - BroadAmong(Handlers(nodes, i, i + 1))]
    [] nodes[i].kind = "raise" ->
         [s EXCEPT !.current_except_depth = depth,
                   !.number_of_raise_statements = @ + 1]
    [] OTHER -> [s EXCEPT !.current_except_depth = depth]

RECURSIVE ErrorVisit(_, _, _, _)
\* ErrorMetricsVisitor.visit over the tree in pre-order; path holds the nodes
\* still open. Leaving a try takes one off current_except_depth.
ErrorVisit(nodes, i, path, s) ==
  IF i > Len(nodes) THEN
    [s EXCEPT !.current_except_depth = @ - CountKind(path, {"try"})]
  ELSE
    LET n == nodes[i]
        kept == SubSeq(path, 1, n.level)
        left == SubSeq(path, n.level + 1, Len(path))
    IN ErrorVisit(nodes, i + 1, Append(kept, n),
         ErrorEnter(nodes, i, s, s.current_except_depth - CountKind(left, {"try"})))

\* extract_error_metrics (ErrorMetrics.from_str)
extract_error_metrics(code) ==
  LET tree == parse_code_fragment(code)
  IN IF tree.raised # "none" THEN Returned(Metric("error"))
     ELSE LET visitor == ErrorVisit(tree.body, 1, <<>>, ErrorReset)
          IN Returned([variant |-> "error",
               vals |-> [f \in ErrorFields |->
                 IF f = "number_of_finally_blocks" THEN 0 ELSE visitor[f]]])

\* ----------------------------------------------------- Dependency visitor

EmptyGraph == [nodes |-> {}, edges |-> {}]

add_edge(g, u, v) == [nodes |-> g.nodes \cup {u, v}, edges |-> g.edges \cup {<<u, v>>}]

\* DependencyMetricsVisitor.__init__: current_function = None; the visitor has no
\* visit_FunctionDef, so no statement assigns it afterwards
current_function == "None"

RECURSIVE CallGraphOf(_, _, _)
\* visit_Call over the tree: the edge is added only under a current function
CallGraphOf(nodes, i, g) ==
  IF i > Len(nodes) THEN g
  ELSE CallGraphOf(nodes, i + 1,
         IF nodes[i].kind = "call" /\ current_function # "None"
           THEN add_edge(g, current_function, "g") ELSE g)

RECURSIVE ReachWithin(_, _, _)
\* the nodes reachable from s along at most k edges
ReachWithin(g, s, k) ==
  IF k = 0 THEN {s}
  ELSE LET r == ReachWithin(g, s, k - 1)
       IN r \cup {e[2] : e \in {d \in g.edges : d[1] \in r}}

has_path(g, s, t) == t \in ReachWithin(g, s, Cardinality(g.nodes))

\* len(nx.shortest_path(g, s, t)): the number of nodes on a shortest path
ShortestPathLen(g, s, t) ==
  1 + CHOOSE k \in 0..Cardinality(g.nodes) :
        /\ t \in ReachWithin(g, s, k)
        /\ \A j \in 0..(k - 1) : t \notin ReachWithin(g, s, j)

RECURSIVE SetMax(_)
SetMax(S) ==
  LET x == CHOOSE y \in S : TRUE
  IN IF S = {x} THEN x ELSE Max(x, SetMax(S \ {x}))

RECURSIVE CyclesOfLen(_, _)
\* the simple cycles on exactly k nodes: each is found once per rotation
CyclesOfLen(g, k) ==
  Cardinality({p \in [1..k -> g.nodes] :
                 /\ \A a, b \in 1..k : a # b => p[a] # p[b]
                 /\ \A a \in 1..k : <<p[a], p[(a % k) + 1]>> \in g.edges}) \div k

RECURSIVE SumCycles(_, _)
SumCycles(g, k) == IF k = 0 THEN 0 ELSE CyclesOfLen(g, k) + SumCycles(g, k - 1)

\* a cycle count that overlooks the functions that call themselves
simple_cycles_noselfloops(g) ==
  SumCycles([g EXCEPT !.edges = {e \in @ : e[1] # e[2]}], Cardinality(g.nodes))

\* len(list(nx.simple_cycles(g)))
simple_cycles(g) == SumCycles(g, Cardinality(g.nodes))

\* DependencyMetrics.add_call_graph: max() of an empty generator raises ValueError
add_call_graph(m, g) ==
  LET lens == {ShortestPathLen(g, p[1], p[2]) :
                 p \in {q \in g.nodes \X g.nodes : has_path(g, q[1], q[2])}}
  IN IF lens = {} THEN Raised("ValueError")
     ELSE Returned([m EXCEPT !.vals["number_of_unique_calls"] = Cardinality(g.nodes),
                             !.vals["max_call_depth"] = SetMax(lens) - 1,
                             !.vals["number_of_circular_dependencices"] = simple_cycles(g)])

\* analyze_dependencies of analysis/advanced_features.py, the same analysis with
\* the ValueError of max() handled; n_unique_calls, max_call_depth and
\* n_circular_deps are given under the field names of DependencyMetrics
analyze_dependencies(g) ==
  IF add_call_graph(Metric("dependency"), g).raised = "ValueError"
    THEN Returned([Metric("dependency") EXCEPT
                     !.vals["number_of_unique_calls"] = Cardinality(g.nodes),
                     !.vals["max_call_depth"] = 0,
                     !.vals["number_of_circular_dependencices"] = simple_cycles(g)])
    ELSE add_call_graph(Metric("dependency"), g)

\* extract_dependency_metrics (DependencyMetrics.from_str): on SyntaxError the
\* zero record is built and dropped, and the walk then reads the unbound tree
extract_dependency_metrics(code) ==
  LET tree == AstParse(code)
  IN IF ~tree.ok THEN Raised("UnboundLocalError")
     ELSE add_call_graph(
            [variant |-> "dependency",
             vals |-> [f \in DependencyFields |->
               CASE f = "number_of_function_calls" -> CountKind(tree.body, {"call"})
                 [] OTHER -> 0]],
            CallGraphOf(tree.body, 1, EmptyGraph))

\* metric.from_str(code)
from_str(variant, code) ==
  CASE variant = "code" -> extract_file_metrics(code)
    [] variant = "type" -> extract_type_metrics(code)
    [] variant = "error" -> extract_error_metrics(code)
    [] variant = "dependency" -> extract_dependency_metrics(code)

\* -------------------------------------------------------- apply_metrics

Phases == {"before", "after", "diff"}

\* total += metric.from_str(code): an exception of from_str or of the addition
\* escapes
AddFromStr(total, r) == IF r.raised = "none" THEN Add(total, r.value) ELSE r

\* the two statements of the loop body, the second run only if the first returned
AccumulateAfter(sb, metric, diff, metrics_after) ==
  IF sb.raised # "none" THEN [raised |-> sb.raised, before |-> <<>>, after |-> <<>>]
  ELSE [raised |-> "pending", before |-> sb.value,
        after |-> AddFromStr(metrics_after, from_str(metric, diff.after))]

AccumulateOne(metric, diff, metrics_before, metrics_after) ==
  AccumulateAfter(AddFromStr(metrics_before, from_str(metric, diff.before)),
                  metric, diff, metrics_after)

RECURSIVE AccumulateFiles(_, _, _, _, _)

AccumulateNext(step, metric, files, i) ==
  IF step.raised # "pending" THEN step
  ELSE IF step.after.raised # "none"
    THEN [raised |-> step.after.raised, before |-> <<>>, after |-> <<>>]
  ELSE AccumulateFiles(metric, files, i + 1, step.before, step.after.value)

\* the loop over patch.files.values(): before is added first, then after; an
\* exception raised by from_str or by the addition leaves the loop
AccumulateFiles(metric, files, i, metrics_before, metrics_after) ==
  IF i > Len(files)
    THEN [raised |-> "none", before |-> metrics_before, after |-> metrics_after]
  ELSE AccumulateNext(AccumulateOne(metric, files[i], metrics_before, metrics_after),
                      metric, files, i)

RECURSIVE ApplyFrom(_, _, _, _)

\* metrics_diff = metrics_after - metrics_before, then results.update(...)
UpdateResults(metrics_diff, acc, patch, metrics, k, results) ==
  IF metrics_diff.raised # "none" THEN [raised |-> metrics_diff.raised, row |-> <<>>]
  ELSE ApplyFrom(patch, metrics, k + 1,
         to_dict(acc.before, metrics[k], "before")
           @@ to_dict(acc.after, metrics[k], "after")
           @@ to_dict(metrics_diff.value, metrics[k], "diff")
           @@ results)

DiffAndUpdate(acc, patch, metrics, k, results) ==
  IF acc.raised # "none" THEN [raised |-> acc.raised, row |-> <<>>]
  ELSE UpdateResults(Sub(acc.after, acc.before), acc, patch, metrics, k, results)

\* the loop over metrics.items(); results.update lets the new keys win
ApplyFrom(patch, metrics, k, results) ==
  IF k > Len(metrics) THEN [raised |-> "none", row |-> results]
  ELSE DiffAndUpdate(
         AccumulateFiles(metrics[k], patch.files, 1, Metric(metrics[k]), Metric(metrics[k])),
         patch, metrics, k, results)

\* apply_metrics(patch, metrics): the row, or the exception that escaped
apply_metrics(patch, metrics) == ApplyFrom(patch, metrics, 1, <<>>)

\* ---------------------------------------------------------- patch parser

\* A line of patch text is the sequence of its characters; the marker of a file
\* section, "diff --git", is one symbol.
DiffGit == "diff --git"

StartsWith(line, prefix) ==
  Len(line) >= Len(prefix) /\ SubSeq(line, 1, Len(prefix)) = prefix

RECURSIVE RStrip(_)
RStrip(line) ==
  IF line # <<>> /\ line[Len(line)] = " " THEN RStrip(SubSeq(line, 1, Len(line) - 1))
  ELSE line

RECURSIVE TokenEnd(_)
\* the characters after the last blank
TokenEnd(line) ==
  IF line = <<>> \/ line[Len(line)] = " " THEN <<>>
  ELSE Append(TokenEnd(SubSeq(line, 1, Len(line) - 1)), line[Len(line)])

\* line.split()[-1]
LastToken(line) == TokenEnd(RStrip(line))

RECURSIVE LStrip(_, _)
\* str.lstrip(chars): drops every leading character that is one of chars
LStrip(name, chars) ==
  IF name # <<>> /\ \E j \in 1..Len(chars) : name[1] = chars[j]
    THEN LStrip(Tail(name), chars)
    ELSE name

\* "\n".join(lines), as the lines str.split gives back: joining no lines gives ""
Join(lines) == IF lines = <<>> THEN << <<>> >> ELSE lines

None == <<"<None>">>

\* a name is truthy unless it is None or ""
Truthy(name) == name # None /\ name # <<>>

\* files[current_file] = Diff(...)
SaveFile(st) ==
  IF Truthy(st.current_file)
    THEN [st EXCEPT !.files =
            (st.current_file :> [before |-> Join(st.current_before),
                                 after |-> Join(st.current_after)]) @@ st.files]
    ELSE st

\* one iteration of the loop over the lines of the patch
ScanLine(st, line) ==
  IF StartsWith(line, <<DiffGit>>) THEN
    [SaveFile(st) EXCEPT !.current_file = LStrip(LastToken(line), <<"b", "/">>),
                         !.current_before = <<>>,
                         !.current_after = <<>>]
  ELSE IF StartsWith(line, <<"+", "+", "+">>) \/ StartsWith(line, <<"-", "-", "-">>) THEN st
  ELSE IF StartsWith(line, <<"+">>) THEN
    [st EXCEPT !.current_after = Append(@, Tail(line))]
  ELSE IF StartsWith(line, <<"-">>) THEN
    [st EXCEPT !.current_before = Append(@, Tail(line))]
  ELSE IF StartsWith(line, <<" ">>) THEN
    [st EXCEPT !.current_before = Append(@, Tail(line)),
               !.current_after = Append(@, Tail(line))]
  ELSE st

RECURSIVE ScanFrom(_, _, _)
ScanFrom(lines, i, st) ==
  IF i > Len(lines) THEN SaveFile(st)
  ELSE ScanFrom(lines, i + 1, ScanLine(st, lines[i]))

\* the try block of Patch.from_str: no statement of it raises on a string
Scan(patch) ==
  ScanFrom(patch, 1, [files |-> <<>>, current_file |-> None,
                      current_before |-> <<>>, current_after |-> <<>>]).files

\* Patch.from_str of analysis/models/patch.py ("models"): Patch(files=files) lacks
\* the required field patch, so the constructor raises; of
\* analysis/features/patch.py ("features"): the mapping itself is returned
Patch_from_str(module, patch) ==
  IF module = "models" THEN [raised |-> "ValidationError", files |-> <<>>]
  ELSE [raised |-> "none", files |-> Scan(patch)]

RECURSIVE CountStarting(_, _)
\* len([line for line in lines if line.startswith(prefix)])
CountStarting(lines, prefix) ==
  IF lines = <<>> THEN 0
  ELSE (IF StartsWith(lines[1], prefix) THEN 1 ELSE 0) + CountStarting(Tail(lines), prefix)

\* PatchMetrics.from_patch
PatchMetrics_from_patch(patch) ==
  [variant |-> "patch",
   vals |-> [f \in {"number_of_files", "number_of_lines", "number_of_added_lines",
                    "number_of_removed_lines"} |->
     CASE f = "number_of_files" -> Len(patch.files)
       [] f = "number_of_lines" -> Len(patch.patch)
       [] f = "number_of_added_lines" -> CountStarting(patch.patch, <<"+">>)
       [] f = "number_of_removed_lines" -> CountStarting(patch.patch, <<"-">>)]]

\* InstanceMetrics.from_instance
InstanceMetrics_from_instance(instance) ==
  [variant |-> "instance",
   vals |-> [f \in {"problem_statement_length"} |-> Len(instance.problem_statement)]]

\* Patch.from_instance: the download of the pre-image fails (raise_for_status), or
\* the patch holds the raw text and, per file, the pre-image and what the loop
\* over the hunks leaves of it (instance.files stands for those texts; ApplyHunk
\* is that loop)
Patch_from_instance(instance) ==
  IF instance.fetch # "ok" THEN Raised(instance.fetch)
  ELSE Returned([patch |-> instance.patch, files |-> instance.files])

\* ------------------------------------------------------------- inputs

Kinds == {"pass", "call", "raise", "ann", "if", "def", "lpar", "rpar", "bad"}

\* the kinds that decide whether and how a fragment parses
ParseKinds == {"pass", "if", "lpar", "rpar", "bad"}

LinesOf(kinds) == {Blank} \cup {Ln(i, k) : i \in 0..MaxIndent, k \in kinds}

TextsOf(kinds, n) == UNION {[1..m -> LinesOf(kinds)] : m \in 1..n}

NoRet == [done |-> FALSE]

\* fragments a diff reconstructs
FragEmpty == EmptyStr
FragPunct == <<Ln(0, "bad")>>
\* def f():            if c:
\*     if c:               if c:
\*         g()                 raise
\*                     x: int = 1
FragDef == <<Ln(0, "def"), Ln(4, "if"), Ln(8, "call")>>
FragNested == <<Ln(0, "if"), Ln(4, "if"), Ln(8, "raise"), Ln(0, "ann")>>
\* a uniformly indented method body
FragBody == <<Ln(4, "call"), Ln(4, "ann")>>

SampleFragments == {FragEmpty, FragPunct, FragDef, FragNested, FragBody}

\* fragments with annotated assignments: every line one, of every form
TypeFragments ==
  {[j \in 1..2 |-> Ln(0, ks[j])] : ks \in AnnKinds \X AnnKinds}
    \cup {<<Ln(0, "def"), Ln(4, k), Ln(0, "ann")>> : k \in AnnKinds}

MaxFiles == 2

Diff(b, a) == [before |-> b, after |-> a]

Diffs == {Diff(b, a) : b \in SampleFragments, a \in {FragDef, FragPunct, FragEmpty}}

\* Patch.files as the sequence of its values, in insertion order
Patches == {[files |-> fs] : fs \in UNION {[1..n -> Diffs] : n \in 0..MaxFiles}}

\* 'def f(): pass', with the body on a line of its own
FragPass == <<Ln(0, "def"), Ln(4, "pass")>>
\* a function whose body is a try around a call, with one broad handler
FragTry == <<Ln(0, "def"), Ln(4, "try"), Ln(4, "except")>>

\* a patch of one file that wraps the body of f in a try
EndToEndPatch == [files |-> <<Diff(FragPass, FragTry)>>]

\* the dictionary compute_features passes, and two smaller ones
AllMetrics == <<"code", "type", "error", "dependency">>
MetricDicts == {AllMetrics, <<"code", "type", "error">>, <<"dependency">>}

Variants == {"code", "type", "error", "dependency"}

\* the records the extractors produce for the sample fragments
SampleRecords(v) ==
  {Metric(v)} \cup
  {from_str(v, c).value : c \in {d \in SampleFragments : from_str(v, d).raised = "none"}}

\* --------------------------------------------- parse_code_fragment, stepwise

InitParse ==
  /\ call \in {[op |-> "parse_code_fragment", code |-> c] : c \in TextsOf(ParseKinds, MaxLines)}
  /\ ret = NoRet
  /\ attempt = 1
  /\ tried = <<>>
  /\ idx = 0
  /\ rows = <<>>
  /\ reported = <<>>

\* one iteration of the loop over attempts: a parse that succeeds returns
AttemptTransform ==
  /\ call.op = "parse_code_fragment"
  /\ ~ret.done
  /\ attempt <= Len(attempts)
  /\ LET tree == AstParse(Transform(attempts[attempt], call.code))
     IN /\ tried' = Append(tried, attempts[attempt])
        /\ IF tree.ok
             THEN /\ ret' = [done |-> TRUE, raised |-> "none",
                             via |-> attempts[attempt], body |-> tree.body]
                  /\ attempt' = attempt
             ELSE /\ ret' = ret
                  /\ attempt' = attempt + 1
  /\ UNCHANGED <<call, batchVars>>

\* after the loop: line-by-line salvage, or ValueError
AttemptSalvage ==
  /\ call.op = "parse_code_fragment"
  /\ ~ret.done
  /\ attempt > Len(attempts)
  /\ tried' = Append(tried, "salvage")
  /\ ret' = [done |-> TRUE] @@ Salvage(call.code)
  /\ UNCHANGED <<call, attempt, batchVars>>

NextParse == AttemptTransform \/ AttemptSalvage

SpecParse == InitParse /\ [][NextParse]_vars

\* ---------------------------------------------------- the extractors

MaxFragLines == 2

InitExtract ==
  /\ call \in {[op |-> "from_str", variant |-> v, code |-> c] :
                 v \in Variants, c \in TextsOf(Kinds, MaxFragLines) \cup SampleFragments}
            \cup {[op |-> "from_str", variant |-> "type", code |-> c] : c \in TypeFragments}
  /\ ret = NoRet
  /\ attempt = 0
  /\ tried = <<>>
  /\ idx = 0
  /\ rows = <<>>
  /\ reported = <<>>

Extract ==
  /\ call.op = "from_str"
  /\ ~ret.done
  /\ ret' = [done |-> TRUE] @@ from_str(call.variant, call.code)
  /\ UNCHANGED <<call, parseVars, batchVars>>

NextExtract == Extract

SpecExtract == InitExtract /\ [][NextExtract]_vars

\* ------------------------------------------- arithmetic and apply_metrics

\* a record in which the fields of N were set to None
WithNone(r, N) == [variant |-> r.variant, vals |-> r.vals, nones |-> N]

\* Error records holding None in one field or in two
NoneRecords ==
  {WithNone(r, N) : r \in SampleRecords("error"),
                    N \in {{"number_of_try_blocks"},
                           {"number_of_raise_statements", "max_except_depth"}}}

\* the operands of the arithmetic: what the extractors produce, the negations of
\* that, and the records holding None
ArithmeticRecords ==
  UNION {SampleRecords(v) : v \in Variants} \cup NoneRecords

NegatedRecords ==
  UNION {{Sub(Metric(v), r).value : r \in SampleRecords(v)} : v \in Variants}

InitApply ==
  /\ call \in {[op |-> o, a |-> x, b |-> y] :
                 o \in {"add", "sub"}, x \in ArithmeticRecords, y \in ArithmeticRecords}
            \cup {[op |-> "abs", a |-> x] : x \in ArithmeticRecords \cup NegatedRecords}
            \cup {[op |-> "apply_metrics", patch |-> p, metrics |-> m] :
                    p \in Patches \cup {EndToEndPatch}, m \in MetricDicts}
  /\ ret = NoRet
  /\ attempt = 0
  /\ tried = <<>>
  /\ idx = 0
  /\ rows = <<>>
  /\ reported = <<>>

DoAdd ==
  /\ call.op = "add"
  /\ ~ret.done
  /\ ret' = [done |-> TRUE] @@ Add(call.a, call.b)
  /\ UNCHANGED <<call, parseVars, batchVars>>

DoSub ==
  /\ call.op = "sub"
  /\ ~ret.done
  /\ ret' = [done |-> TRUE] @@ Sub(call.a, call.b)
  /\ UNCHANGED <<call, parseVars, batchVars>>

DoAbs ==
  /\ call.op = "abs"
  /\ ~ret.done
  /\ ret' = [done |-> TRUE] @@ Abs(call.a)
  /\ UNCHANGED <<call, parseVars, batchVars>>

DoApplyMetrics ==
  /\ call.op = "apply_metrics"
  /\ ~ret.done
  /\ ret' = [done |-> TRUE] @@ apply_metrics(call.patch, call.metrics)
  /\ UNCHANGED <<call, parseVars, batchVars>>

NextApply == DoAdd \/ DoSub \/ DoAbs \/ DoApplyMetrics

SpecApply == InitApply /\ [][NextApply]_vars

\* ------------------------------------------------------ the patch parser

MaxBodyLines == 2

SeqsUpTo(S, n) == UNION {[1..m -> S] : m \in 0..n}

\* the text of a source line a hunk carries: empty, a name, a negation, a
\* decrement and an increment
Contents == {<<>>, <<"x">>, <<"-", "x">>, <<"-", "-">>, <<"+", "+">>}

\* a hunk line: its role in the diff and the source line it carries
BodyLines == [role : {"removed", "added", "context"}, content : Contents]

\* file paths
Paths == {<<"x">>, <<"b">>, <<"b", "x">>, <<"x", "b">>}

\* a file section: the path of the file and the lines of its hunk
Sections(n) == [path : Paths, body : SeqsUpTo(BodyLines, n)]

Marker(role) ==
  CASE role = "removed" -> "-" [] role = "added" -> "+" [] role = "context" -> " "

\* the text of a section, as git writes it
RenderSection(sec) ==
  << <<DiffGit, " ", "a", "/">> \o sec.path \o <<" ", "b", "/">> \o sec.path,
     <<"-", "-", "-", " ", "a", "/">> \o sec.path,
     <<"+", "+", "+", " ", "b", "/">> \o sec.path,
     <<"@", "@">> >>
  \o [j \in 1..Len(sec.body) |-> <<Marker(sec.body[j].role)>> \o sec.body[j].content]

RECURSIVE RenderPatch(_)
\* patch.split("\n") of the text of the sections
RenderPatch(secs) ==
  IF secs = <<>> THEN <<>> ELSE RenderSection(secs[1]) \o RenderPatch(Tail(secs))

\* patches of one section, and of two short sections with different paths
PatchInputs ==
  {<<sec>> : sec \in Sections(MaxBodyLines)}
  \cup {<<pr[1], pr[2]>> : pr \in {q \in Sections(1) \X Sections(1) : q[1].path # q[2].path}}

InitPatch ==
  /\ call \in {[op |-> "Patch.from_str", module |-> m, sections |-> secs,
                patch |-> RenderPatch(secs)] :
                 m \in {"models", "features"}, secs \in PatchInputs}
            \cup {[op |-> "PatchMetrics.from_patch", sections |-> secs,
                    patch |-> RenderPatch(secs)] : secs \in PatchInputs}
  /\ ret = NoRet
  /\ attempt = 0
  /\ tried = <<>>
  /\ idx = 0
  /\ rows = <<>>
  /\ reported = <<>>

DoPatchFromStr ==
  /\ call.op = "Patch.from_str"
  /\ ~ret.done
  /\ ret' = [done |-> TRUE] @@ Patch_from_str(call.module, call.patch)
  /\ UNCHANGED <<call, parseVars, batchVars>>

\* PatchMetrics.from_patch of the Patch of the text: patch.patch is the text,
\* patch.files has one entry per file section
DoPatchMetrics ==
  /\ call.op = "PatchMetrics.from_patch"
  /\ ~ret.done
  /\ ret' = [done |-> TRUE,
             value |-> PatchMetrics_from_patch([patch |-> call.patch,
                                                files |-> call.sections])]
  /\ UNCHANGED <<call, parseVars, batchVars>>

NextPatch == DoPatchFromStr \/ DoPatchMetrics

SpecPatch == InitPatch /\ [][NextPatch]_vars

\* ------------------------------------------------------- compute_features

MaxInstances == 3

SamplePatch == RenderSection([path |-> <<"x">>,
                              body |-> <<[role |-> "added", content |-> <<"x">>]>>])

\* what an instance can be: its download fails; its patch touches no file (an
\* empty text, or two lines that are no file section); its patch touches one
\* file, with parseable or with unparseable fragments
InstanceKinds ==
  {[fetch |-> "HTTPError", patch |-> SamplePatch, files |-> <<Diff(FragNested, SubSeq(FragNested, 1, 3))>>],
   [fetch |-> "ok", patch |-> << <<>> >>, files |-> <<>>],
   [fetch |-> "ok", patch |-> << <<"x">>, <<"x">> >>, files |-> <<>>],
   [fetch |-> "ok", patch |-> SamplePatch, files |-> <<Diff(FragNested, SubSeq(FragNested, 1, 3))>>],
   [fetch |-> "ok", patch |-> SamplePatch, files |-> <<Diff(FragPunct, FragEmpty)>>]}

MkInstance(i, k) ==
  [instance_id |-> i, problem_statement |-> <<"p">>,
   fetch |-> k.fetch, patch |-> k.patch, files |-> k.files]

InitBatch ==
  /\ call \in {[op |-> "compute_features", instances |-> l] :
                 l \in UNION {{[i \in 1..Len(ks) |-> MkInstance(i, ks[i])]} :
                                 ks \in SeqsUpTo(InstanceKinds, MaxInstances)}}
  /\ ret = NoRet
  /\ attempt = 0
  /\ tried = <<>>
  /\ idx = 1
  /\ rows = <<>>
  /\ reported = <<>>

\* a row that takes over the patch columns of the row before it
BuildRow_carry(metrics, patch, instance) ==
  (<<"", "instance_id", "">> :> instance.instance_id)
    @@ to_dict(InstanceMetrics_from_instance(instance), "instance", "")
    @@ (IF rows = <<>> THEN to_dict(PatchMetrics_from_patch(patch), "patch", "")
        ELSE [k \in DOMAIN to_dict(PatchMetrics_from_patch(patch), "patch", "") |->
                rows[Len(rows)][k]])
    @@ metrics

\* the row of one instance: {**metrics, **patch metrics, **instance metrics,
\* "instance_id": ...}; a key without suffix or prefix has "" in its place
BuildRow(metrics, patch, instance) ==
  (<<"", "instance_id", "">> :> instance.instance_id)
    @@ to_dict(InstanceMetrics_from_instance(instance), "instance", "")
    @@ to_dict(PatchMetrics_from_patch(patch), "patch", "")
    @@ metrics

\* the loop body when Patch.from_instance raises: the failure is printed and the
\* loop goes on
SkipInstance ==
  /\ call.op = "compute_features"
  /\ ~ret.done
  /\ idx <= Len(call.instances)
  /\ Patch_from_instance(call.instances[idx]).raised # "none"
  /\ reported' = Append(reported, call.instances[idx].instance_id)
  /\ idx' = idx + 1
  /\ UNCHANGED <<call, ret, rows, parseVars>>

AppendRow(metrics, patch, instance) ==
  IF metrics.raised # "none"
    THEN /\ ret' = [done |-> TRUE, raised |-> metrics.raised, table |-> <<>>]
         /\ UNCHANGED <<rows, idx>>
    ELSE /\ rows' = Append(rows, BuildRow(metrics.row, patch, instance))
         /\ idx' = idx + 1
         /\ UNCHANGED ret

\* the loop body otherwise: apply_metrics is outside the try, so what it raises
\* leaves compute_features
ProcessInstance ==
  /\ call.op = "compute_features"
  /\ ~ret.done
  /\ idx <= Len(call.instances)
  /\ Patch_from_instance(call.instances[idx]).raised = "none"
  /\ AppendRow(apply_metrics(Patch_from_instance(call.instances[idx]).value, AllMetrics),
               Patch_from_instance(call.instances[idx]).value, call.instances[idx])
  /\ UNCHANGED <<call, reported, parseVars>>

\* return pd.concat(rows): concatenating no rows raises ValueError
ReturnTable ==
  /\ call.op = "compute_features"
  /\ ~ret.done
  /\ idx > Len(call.instances)
  /\ ret' = IF rows = <<>> THEN [done |-> TRUE, raised |-> "ValueError", table |-> <<>>]
            ELSE [done |-> TRUE, raised |-> "none", table |-> rows]
  /\ UNCHANGED <<call, idx, rows, reported, parseVars>>

NextBatch == SkipInstance \/ ProcessInstance \/ ReturnTable

SpecBatch == InitBatch /\ [][NextBatch]_vars

\* ------------------------------------------------- the Structure walk

MaxNodes == 5

WalkKinds == {"if", "def", "pass"}

\* a line can follow a text: a block header is followed by its body, one level
\* deeper; any other line by a line of its level or of an enclosing one
CanFollow(t, level) ==
  IF t[Len(t)].kind \in {"if", "def"} THEN level * IndentWidth = t[Len(t)].ind + IndentWidth
  ELSE level * IndentWidth <= t[Len(t)].ind

RECURSIVE NestedPrefixes(_)
\* the well-indented texts of n lines, the last block possibly without its body
NestedPrefixes(n) ==
  IF n = 1 THEN {<<Ln(0, k)>> : k \in WalkKinds}
  ELSE {Append(x[1], Ln(x[3] * IndentWidth, x[2])) :
          x \in {y \in NestedPrefixes(n - 1) \X WalkKinds \X (0..(n - 1)) :
                   CanFollow(y[1], y[3])}}

\* the fragments of nested blocks that parse as they are
NestedTexts ==
  UNION {{t \in NestedPrefixes(n) : t[n].kind = "pass"} : n \in 1..MaxNodes}

InitWalk ==
  /\ call \in {[op |-> "extract_file_metrics", code |-> c] : c \in NestedTexts}
  /\ ret = NoRet
  /\ attempt = 0
  /\ tried = <<>>
  /\ idx = 0
  /\ rows = <<>>
  /\ reported = <<>>

DoWalk ==
  /\ call.op = "extract_file_metrics"
  /\ ~ret.done
  /\ ret' = [done |-> TRUE] @@ extract_file_metrics(call.code)
  /\ UNCHANGED <<call, parseVars, batchVars>>

NextWalk == DoWalk

SpecWalk == InitWalk /\ [][NextWalk]_vars

\* ------------------------------------------------- the call-graph analysis

\* the functions of the call graphs analysed
GraphNodes == {"f", "g", "h"}

\* every directed graph on some of the functions, self-loops and isolated
\* nodes included
Graphs ==
  UNION {{[nodes |-> N, edges |-> E] : E \in SUBSET (N \X N)} : N \in SUBSET GraphNodes}

InitGraph ==
  /\ call \in {[op |-> "add_call_graph", module |-> m, call_graph |-> g] :
                 m \in {"metrics", "advanced_features"}, g \in Graphs}
  /\ ret = NoRet
  /\ attempt = 0
  /\ tried = <<>>
  /\ idx = 0
  /\ rows = <<>>
  /\ reported = <<>>

DoAddCallGraph ==
  /\ call.op = "add_call_graph"
  /\ ~ret.done
  /\ ret' = [done |-> TRUE] @@
              (IF call.module = "metrics"
                 THEN add_call_graph(Metric("dependency"), call.call_graph)
                 ELSE analyze_dependencies(call.call_graph))
  /\ UNCHANGED <<call, parseVars, batchVars>>

NextGraph == DoAddCallGraph

SpecGraph == InitGraph /\ [][NextGraph]_vars

\* ------------------------------------------------- the walks, node by node

\* fragments with exception blocks: nested, side by side, in a function, with
\* several handlers, and one that parses only after its indentation is removed
ErrorFragments ==
  {<<Ln(0, "pass")>>,
   <<Ln(0, "tryblk"), Ln(4, "raise"), Ln(0, "except")>>,
   <<Ln(0, "tryblk"), Ln(4, "tryblk"), Ln(8, "raise"), Ln(4, "exceptval"),
     Ln(0, "exceptbare")>>,
   <<Ln(0, "try"), Ln(0, "except"), Ln(0, "try"), Ln(0, "exceptval")>>,
   <<Ln(0, "tryblk"), Ln(4, "tryblk"), Ln(8, "tryblk"), Ln(12, "pass"), Ln(8, "except"),
     Ln(4, "exceptval"), Ln(0, "exceptbare")>>,
   <<Ln(0, "def"), Ln(4, "tryblk"), Ln(8, "pass"), Ln(4, "exceptval"), Ln(4, "except"),
     Ln(4, "exceptbare")>>,
   <<Ln(0, "if"), Ln(4, "try"), Ln(4, "exceptbare"), Ln(0, "raise")>>,
   <<Ln(4, "tryblk"), Ln(8, "raise"), Ln(4, "exceptval")>>,
   <<Ln(0, "tryblk"), Ln(4, "try"), Ln(4, "exceptval"), Ln(4, "try"), Ln(4, "except"),
     Ln(0, "except")>>}

\* visitor.visit(tree): the visitor as constructed, the tree of the fragment,
\* no node entered yet; tried holds the nodes entered and not yet left
InitVisit ==
  /\ call \in {[op |-> "visit", visitor |-> "structure", code |-> c,
                 nodes |-> parse_code_fragment(c).body] :
                  c \in NestedTexts \cup ErrorFragments}
            \cup {[op |-> "visit", visitor |-> "error", code |-> c,
                    nodes |-> parse_code_fragment(c).body] :
                     c \in ErrorFragments \cup (SampleFragments \ {FragPunct})}
  /\ ret = IF call.visitor = "structure"
             THEN [done |-> FALSE, state |-> StructureReset]
             ELSE [done |-> FALSE, state |-> ErrorReset]
  /\ attempt = 0
  /\ tried = <<>>
  /\ idx = 1
  /\ rows = <<>>
  /\ reported = <<>>

\* the kinds of node whose visit changes the depth counter of the visitor
DepthNodes(visitor) == IF visitor = "structure" THEN ControlFlowNodes ELSE {"try"}

\* visit(node) up to the visit of the children
EnterNode ==
  /\ call.op = "visit"
  /\ ~ret.done
  /\ idx <= Len(call.nodes)
  /\ Len(tried) = call.nodes[idx].level
  /\ ret' = [ret EXCEPT !.state =
               IF call.visitor = "structure"
                 THEN StructureEnter(call.nodes, idx, @, @.current_depth)
                 ELSE ErrorEnter(call.nodes, idx, @, @.current_except_depth)]
  /\ tried' = Append(tried, call.nodes[idx])
  /\ idx' = idx + 1
  /\ UNCHANGED <<call, attempt, rows, reported>>

\* a visit that forgets to take the depth down when it leaves the node
LeaveNode_keepdepth ==
  /\ call.op = "visit"
  /\ ~ret.done
  /\ tried # <<>>
  /\ IF idx > Len(call.nodes) THEN TRUE ELSE Len(tried) > call.nodes[idx].level
  /\ tried' = SubSeq(tried, 1, Len(tried) - 1)
  /\ UNCHANGED <<call, ret, attempt, idx, rows, reported>>

\* visit(node) after the visit of the children: the depth goes down again
LeaveNode ==
  /\ call.op = "visit"
  /\ ~ret.done
  /\ tried # <<>>
  /\ IF idx > Len(call.nodes) THEN TRUE ELSE Len(tried) > call.nodes[idx].level
  /\ ret' = IF tried[Len(tried)].kind \notin DepthNodes(call.visitor) THEN ret
            ELSE IF call.visitor = "structure"
              THEN [ret EXCEPT !.state.current_depth = @ - 1]
              ELSE [ret EXCEPT !.state.current_except_depth = @ - 1]
  /\ tried' = SubSeq(tried, 1, Len(tried) - 1)
  /\ UNCHANGED <<call, attempt, idx, rows, reported>>

\* visitor.visit(tree) returns
FinishVisit ==
  /\ call.op = "visit"
  /\ ~ret.done
  /\ idx > Len(call.nodes)
  /\ tried = <<>>
  /\ ret' = [ret EXCEPT !.done = TRUE]
  /\ UNCHANGED <<call, parseVars, batchVars>>

NextVisit == EnterNode \/ LeaveNode \/ FinishVisit

SpecVisit == InitVisit /\ [][NextVisit]_vars

\* ------------------------------------------------- Patch.from_instance

\* A line of a file is its content, one symbol; the contents that begin with
\* '+' are these.
PlusLines == {"+p"}

\* One change of a file, as the patch text states it: ctx context lines from
\* line at of the pre-image on, then rem lines removed and the lines add added.
\* unidiff.Hunk of the change, after earlier hunks moved the lines by offset: a
\* Line has its marker in line_type and its content, without the marker, in
\* value.
Hunk(pre, c, offset) ==
  [source_start |-> c.at, source_length |-> c.ctx + c.rem,
   target_start |-> c.at + offset, target_length |-> c.ctx + Len(c.add),
   lines |-> [j \in 1..c.ctx |-> [line_type |-> " ", value |-> pre[c.at + j - 1]]]
             \o [j \in 1..c.rem |-> [line_type |-> "-", value |-> pre[c.at + c.ctx + j - 1]]]
             \o [j \in 1..Len(c.add) |-> [line_type |-> "+", value |-> c.add[j]]]]

RECURSIVE HunksFrom(_, _, _, _)
\* unidiff.PatchSet.from_string: the hunks of the file, in order
HunksFrom(pre, changes, k, offset) ==
  IF k > Len(changes) THEN <<>>
  ELSE <<Hunk(pre, changes[k], offset)>>
       \o HunksFrom(pre, changes, k + 1, offset + Len(changes[k].add) - changes[k].rem)

\* hunk.target_lines(): the context lines and the added lines
target_lines(hunk) == SelectSeq(hunk.lines, LAMBDA l : l.line_type \in {" ", "+"})

\* the lines the comprehension selects: line.value.startswith("+")
Selected(hunk) == SelectSeq(target_lines(hunk), LAMBDA l : l.value \in PlusLines)

\* del lines[start : start + length], with the clamping of Python slices
DelSlice(lines, start, length) ==
  SubSeq(lines, 1, Min(start, Len(lines)))
    \o SubSeq(lines, Min(start + length, Len(lines)) + 1, Len(lines))

\* the body of the loop over the hunks: target_length lines are deleted at
\* target_start - 1, and line[1:] of each selected line is inserted; a Line
\* cannot be subscripted, so selecting one raises TypeError
ApplyHunk(lines, hunk) ==
  IF Selected(hunk) # <<>> THEN Raised("TypeError")
  ELSE Returned(DelSlice(lines, hunk.target_start - 1, hunk.target_length))

RECURSIVE ApplyHunks(_, _, _)
ApplyHunks(lines, hunks, k) ==
  IF k > Len(hunks) THEN Returned(lines)
  ELSE LET r == ApplyHunk(lines, hunks[k])
       IN IF r.raised # "none" THEN r ELSE ApplyHunks(r.value, hunks, k + 1)

\* the Diff that Patch.from_instance stores for a file with pre-image pre
FileDiff(pre, changes) ==
  LET r == ApplyHunks(pre, HunksFrom(pre, changes, 1, 0), 1)
  IN IF r.raised # "none" THEN r ELSE Returned(Diff(pre, r.value))

PreImages == {<<"a", "b", "c", "d">>, <<"a", "a", "a">>, <<"+p", "b", "c">>}

\* the changes of a pre-image that stay within it and change something
Changes(pre) ==
  {c \in [at : 1..Len(pre), ctx : {0, 1}, rem : 0..2,
           add : {<<>>, <<"n">>, <<"n", "+p">>, <<"n", "m">>}] :
     /\ c.at + c.ctx + c.rem - 1 <= Len(pre)
     /\ c.rem > 0 \/ c.add # <<>>}

\* one change, or two of which the second begins after the first
ChangeLists(pre) ==
  {<<c>> : c \in Changes(pre)}
    \cup {<<c[1], c[2]>> : c \in {d \in Changes(pre) \X Changes(pre) :
                                     d[2].at >= d[1].at + d[1].ctx + d[1].rem + 1}}

InitHunk ==
  /\ call \in UNION {{[op |-> "from_instance", pre |-> pre, changes |-> cs] :
                         cs \in ChangeLists(pre)} : pre \in PreImages}
  /\ ret = NoRet
  /\ attempt = 0
  /\ tried = <<>>
  /\ idx = 0
  /\ rows = <<>>
  /\ reported = <<>>

DoFromInstance ==
  /\ call.op = "from_instance"
  /\ ~ret.done
  /\ ret' = [done |-> TRUE] @@ FileDiff(call.pre, call.changes)
  /\ UNCHANGED <<call, parseVars, batchVars>>

NextHunk == DoFromInstance

SpecHunk == InitHunk /\ [][NextHunk]_vars

\* ------------------------------------------------------ performance gap

RECURSIVE Chain(_)
\* chain.from_iterable(t.results.resolved for t in targets)
Chain(lists) == IF lists = <<>> THEN <<>> ELSE lists[1] \o Chain(Tail(lists))

\* Counter(seq): how often each element occurs
Counter(seq) ==
  [x \in {seq[j] : j \in DOMAIN seq} |-> Cardinality({j \in DOMAIN seq : seq[j] = x})]

\* unresolved_instances; source and targets are the resolved lists, threshold is
\* [given |-> FALSE] for None
unresolved_instances(source, targets, threshold) ==
  LET t == IF threshold.given THEN threshold.value ELSE Len(targets)
      source_instance_ids == {source[j] : j \in DOMAIN source}
      target_instance_id_counts == Counter(Chain(targets))
      target_instance_ids ==
        {i \in DOMAIN target_instance_id_counts : target_instance_id_counts[i] >= t}
  IN target_instance_ids \ source_instance_ids

\* ---------------------------------------------------- extract_conversation

\* A step of a history: a dictionary (source and message are its entries,
\* "<absent>" for a missing key), a list of two elements (source is the entry of
\* the first element, "<no dict>" if that is no dictionary; message is the
\* second element's entry if second = "dict", the second element itself if
\* second = "str"), or anything else.
Absent == "<absent>"

Step(shape, source, message, second) ==
  [shape |-> shape, source |-> source, message |-> message, second |-> second]

\* step.get('message', '')
GetMessage(message) == IF message = Absent THEN "" ELSE message

\* a conversation that keeps the steps of every source
StepMessages_keepall(step) ==
  IF step.shape \in {"dict", "pair"}
    THEN <<[role |-> IF step.source = "user" THEN "user" ELSE "assistant",
            content |-> GetMessage(step.message)]>>
  ELSE <<>>

\* what one step appends to the conversation
StepMessages(step) ==
  CASE step.shape = "dict" ->
         IF step.source = "user"
           THEN <<[role |-> "user", content |-> GetMessage(step.message)]>>
         ELSE IF step.source = "agent"
           THEN <<[role |-> "assistant", content |-> GetMessage(step.message)]>>
         ELSE <<>>
    [] step.shape = "pair" ->
         IF step.source = "user"
           THEN <<[role |-> "user", content |-> GetMessage(step.message)]>>
         ELSE IF step.source = "agent"
           THEN <<[role |-> "assistant", content |-> GetMessage(step.message)]>>
         ELSE <<>>
    [] OTHER -> <<>>

RECURSIVE ConversationFrom(_, _)
ConversationFrom(steps, i) ==
  IF i > Len(steps) THEN <<>>
  ELSE StepMessages(steps[i]) \o ConversationFrom(steps, i + 1)

\* extract_conversation; history.is_list is isinstance(history, list)
extract_conversation(history) ==
  IF history.is_list THEN ConversationFrom(history.steps, 1) ELSE <<>>

\* ------------------------------------------------- the list utilities

\* resolved lists, some with an id repeated
ResolvedLists == {<<>>, <<"a">>, <<"b">>, <<"a", "b">>, <<"b", "a">>, <<"a", "a">>}

Thresholds == {[given |-> FALSE, value |-> 0]} \cup {[given |-> TRUE, value |-> n] : n \in 0..3}

SampleSteps ==
  {Step("dict", "user", "Hello", "none"), Step("dict", "agent", "Hi", "none"),
   Step("dict", "environment", "Hello", "none"), Step("dict", Absent, "Hello", "none"),
   Step("dict", "user", Absent, "none"), Step("str", Absent, Absent, "none"),
   Step("pair", "user", "Hello", "dict"), Step("pair", "agent", "Hi", "str"),
   Step("pair", "environment", "Hi", "dict"), Step("pair", "<no dict>", "Hi", "dict"),
   Step("pair", "agent", Absent, "dict"), Step("triple", "user", "Hello", "dict")}

MaxSteps == 3

Histories ==
  {[is_list |-> TRUE, steps |-> st] : st \in SeqsUpTo(SampleSteps, MaxSteps)}
    \cup {[is_list |-> FALSE, steps |-> <<>>]}

InitLists ==
  /\ call \in {[op |-> "unresolved_instances", source |-> src, targets |-> ts,
                 threshold |-> th] :
                  src \in ResolvedLists, ts \in SeqsUpTo(ResolvedLists, 2),
                  th \in Thresholds}
            \cup {[op |-> "extract_conversation", history |-> h] : h \in Histories}
  /\ ret = NoRet
  /\ attempt = 0
  /\ tried = <<>>
  /\ idx = 0
  /\ rows = <<>>
  /\ reported = <<>>

DoUnresolvedInstances ==
  /\ call.op = "unresolved_instances"
  /\ ~ret.done
  /\ ret' = [done |-> TRUE,
             value |-> unresolved_instances(call.source, call.targets, call.threshold)]
  /\ UNCHANGED <<call, parseVars, batchVars>>

DoExtractConversation ==
  /\ call.op = "extract_conversation"
  /\ ~ret.done
  /\ ret' = [done |-> TRUE, value |-> extract_conversation(call.history)]
  /\ UNCHANGED <<call, parseVars, batchVars>>

NextLists == DoUnresolvedInstances \/ DoExtractConversation

SpecLists == InitLists /\ [][NextLists]_vars

\* ------------------------------------------------------------ properties

\* the fields the specification calls max-typed
MaxFields == {"max_nested_depth", "max_function_length", "max_except_depth", "max_call_depth"}

\* C1: adding two records of one variant gives, field by field, the sum of the
\* operands, except for the max-typed fields, which get the larger of the two.
C1_AddSumsAndMaxes ==
  (/\ ret.done /\ call.op = "add" /\ call.a.variant = call.b.variant
   /\ Nones(call.a) \cup Nones(call.b) = {}) =>
    /\ ret.raised = "none"
    /\ \A f \in Fields(call.a.variant) :
         ret.value.vals[f] =
           IF f \in MaxFields THEN Max(call.a.vals[f], call.b.vals[f])
           ELSE call.a.vals[f] + call.b.vals[f]

\* C2: in a row apply_metrics returns, every diff column is the after column
\* minus the before column, for the max-typed fields too, and the row holds the
\* three columns of every field of every metric kind asked for.
C2_DiffIsAfterMinusBefore ==
  (ret.done /\ call.op = "apply_metrics" /\ ret.raised = "none") =>
    /\ DOMAIN ret.row =
         {<<call.metrics[k], f, p>> :
            k \in 1..Len(call.metrics), f \in UNION {Fields(v) : v \in Variants}, p \in Phases}
         \cap UNION {{<<v, f, p>> : f \in Fields(v), p \in Phases} : v \in Variants}
    /\ \A k \in 1..Len(call.metrics) : \A f \in Fields(call.metrics[k]) :
         ret.row[<<call.metrics[k], f, "diff">>] =
           ret.row[<<call.metrics[k], f, "after">>] - ret.row[<<call.metrics[k], f, "before">>]

\* a row for a patch of two files in which a max-typed field went down
C2_Witness ==
  /\ ret.done /\ call.op = "apply_metrics" /\ ret.raised = "none"
  /\ Len(call.patch.files) = 2
  /\ "code" \in {call.metrics[k] : k \in 1..Len(call.metrics)}
  /\ ret.row[<<"code", "max_nested_depth", "diff">>] < 0
  /\ ret.row[<<"code", "max_nested_depth", "before">>] > 0

\* C3: every extractor maps the empty string, and a string of punctuation only,
\* to its variant's zero record, without raising.
C3_EmptyOrPunctuationIsZero ==
  (ret.done /\ call.op = "from_str" /\ call.code \in {FragEmpty, FragPunct}) =>
    /\ ret.raised = "none"
    /\ ret.value = Metric(call.variant)

\* the parse step of an extractor raises: the tolerant parser for the Structure
\* and Error extractors, ast.parse for the Type and Dependency extractors
ParseStepRaises(variant, code) ==
  IF variant \in {"code", "error"} THEN parse_code_fragment(code).raised # "none"
  ELSE ~AstParse(code).ok

\* C4: when the parse step raises, every extractor returns its variant's zero
\* record and no exception escapes.
C4_ParseFailureIsZero ==
  (ret.done /\ call.op = "from_str" /\ ParseStepRaises(call.variant, call.code)) =>
    /\ ret.raised = "none"
    /\ ret.value = Metric(call.variant)

\* no fallback strategy parses the fragment
Unparseable(code) == parse_code_fragment(code).raised # "none"

UnparseableFile(d) == Unparseable(d.before) \/ Unparseable(d.after)

RECURSIVE ParseableFiles(_, _)
\* the files whose fragment of the phase parses
ParseableFiles(files, phase) ==
  IF files = <<>> THEN <<>>
  ELSE (IF Unparseable(files[1][phase]) THEN <<>> ELSE <<files[1]>>)
       \o ParseableFiles(Tail(files), phase)

\* C5: for a patch of several files of which one has an unparseable fragment,
\* apply_metrics still returns a row, and the before and after totals are those
\* of the remaining fragments.
C5_UnparseableFileIsAbsorbed ==
  (/\ ret.done /\ call.op = "apply_metrics"
   /\ Len(call.patch.files) >= 2
   /\ \E i \in 1..Len(call.patch.files) : UnparseableFile(call.patch.files[i])
   /\ \E i \in 1..Len(call.patch.files) : ~UnparseableFile(call.patch.files[i])) =>
    /\ ret.raised = "none"
    /\ \A key \in DOMAIN ret.row :
         key[3] \in {"before", "after"} =>
           ret.row[key] =
             apply_metrics([files |-> ParseableFiles(call.patch.files, key[3])],
                           call.metrics).row[key]

RECURSIVE IdsWhere(_, _, _)
\* the ids of the first n instances whose pre-image fetch failed (failed = TRUE)
\* or succeeded (failed = FALSE), in order
IdsWhere(instances, n, failed) ==
  IF n = 0 THEN <<>>
  ELSE IdsWhere(instances, n - 1, failed)
       \o (IF (instances[n].fetch # "ok") = failed THEN <<instances[n].instance_id>>
           ELSE <<>>)

\* C6: compute_features skips and reports every instance whose pre-image fetch
\* fails, produces exactly one row for every other instance, in order, and
\* returns the table of the rows, which may have no row; it never aborts.
C6_BatchSurvivesFailures ==
  call.op = "compute_features" =>
    /\ reported = IdsWhere(call.instances, Min(idx - 1, Len(call.instances)), TRUE)
    /\ [j \in 1..Len(rows) |-> rows[j][<<"", "instance_id", "">>]]
         = IdsWhere(call.instances, Min(idx - 1, Len(call.instances)), FALSE)
    /\ ret.done =>
         /\ ret.raised = "none"
         /\ idx > Len(call.instances)
         /\ ret.table = rows

\* C7: Patch.from_str returns for every patch text, and for a well-formed patch
\* what it returns holds the mapping the scan built.
C7_FromStrNeverRaises ==
  (ret.done /\ call.op = "Patch.from_str") =>
    /\ ret.raised = "none"
    /\ ret.files = Scan(call.patch)

RECURSIVE ContentsWith(_, _)
\* the source lines of the hunk lines whose role is one of roles, in order
ContentsWith(body, roles) ==
  IF body = <<>> THEN <<>>
  ELSE (IF body[1].role \in roles THEN <<body[1].content>> ELSE <<>>)
       \o ContentsWith(Tail(body), roles)

\* C8: for a patch of one file section, the before text is the removed and the
\* context lines and the after text is the added and the context lines, markers
\* stripped, in order; no line is lost, whatever its content begins with.
C8_LinesClassified ==
  (/\ ret.done /\ call.op = "Patch.from_str" /\ ret.raised = "none"
   /\ Len(call.sections) = 1) =>
    \A key \in DOMAIN ret.files :
      /\ ret.files[key].before = Join(ContentsWith(call.sections[1].body, {"removed", "context"}))
      /\ ret.files[key].after = Join(ContentsWith(call.sections[1].body, {"added", "context"}))

\* C9: the keys of the mapping are the target paths of the header lines, that
\* is the last token of each header without its leading "b/"; sections with
\* different target paths have different keys.
C9_KeyIsTargetPath ==
  (ret.done /\ call.op = "Patch.from_str" /\ ret.raised = "none") =>
    /\ DOMAIN ret.files = {call.sections[i].path : i \in 1..Len(call.sections)}
    /\ Cardinality(DOMAIN ret.files) = Len(call.sections)

\* the order the specification gives the strategies
ClaimedOrder == <<"asis", "dedent", "ifwrap", "defwrap", "salvage">>

StrategyParses(name, code) ==
  IF name = "salvage" THEN SalvageFrom(code, 1) # <<>>
  ELSE AstParse(Transform(name, code)).ok

StrategyTree(name, code) ==
  IF name = "salvage" THEN SalvageFrom(code, 1)
  ELSE AstParse(Transform(name, code)).body

\* C10: the strategies are tried in the order as-is, dedent, if-wrapper,
\* def-wrapper, salvage; a strategy is tried only after every earlier one failed;
\* the tree returned is that of the first strategy that parses; the result is a
\* function of the input.
C10_StrategyOrder ==
  call.op = "parse_code_fragment" =>
    /\ Len(tried) <= Len(ClaimedOrder)
    /\ tried = SubSeq(ClaimedOrder, 1, Len(tried))
    /\ \A j \in 1..Len(tried) :
         (j < Len(tried) \/ ~ret.done) => ~StrategyParses(tried[j], call.code)
    /\ ret.done =>
         /\ tried # <<>>
         /\ IF ret.raised = "none"
              THEN /\ ret.via = tried[Len(tried)]
                   /\ StrategyParses(ret.via, call.code)
                   /\ ret.body = StrategyTree(ret.via, call.code)
              ELSE /\ tried = ClaimedOrder
                   /\ ~StrategyParses("salvage", call.code)
         /\ ret = [done |-> TRUE] @@ parse_code_fragment(call.code)

\* a fragment that only the third strategy parses
C10_Witness ==
  /\ call.op = "parse_code_fragment" /\ ret.done
  /\ ret.raised = "none" /\ ret.via = "ifwrap"
  /\ tried = <<"asis", "dedent", "ifwrap">>

\* the kinds of line that are a whole statement on their own
StatementKinds == {"pass", "call", "raise", "ann"}

\* the four whole-text strategies all fail on the fragment
WholeTextFails(code) ==
  \A name \in {"asis", "dedent", "ifwrap", "defwrap"} : ~AstParse(Transform(name, code)).ok

\* the statements of the lines that parse on their own, in their order; each was
\* parsed as a one-line text of its own
LineStatements(code) ==
  [j \in 1..Len(SelectSeqOf(code, StatementKinds)) |->
     Node(SelectSeqOf(code, StatementKinds)[j].kind, 0, 1)]

\* C11: parse_code_fragment raises exactly when the four whole-text strategies
\* fail and no line parses on its own; when they fail and some line parses, the
\* body returned is the statements of the parseable lines, in order, the other
\* lines dropped.
C11_FailsIffNothingSalvaged ==
  (ret.done /\ call.op = "parse_code_fragment") =>
    /\ ret.raised # "none" <=>
         (WholeTextFails(call.code) /\ LineStatements(call.code) = <<>>)
    /\ (WholeTextFails(call.code) /\ LineStatements(call.code) # <<>>) =>
         (ret.raised = "none" /\ ret.body = LineStatements(call.code))

\* a fragment salvaged with one of its lines dropped
C11_Witness ==
  /\ ret.done /\ call.op = "parse_code_fragment"
  /\ ret.raised = "none" /\ ret.via = "salvage"
  /\ Len(ret.body) = 2
  /\ Len(NonBlank(call.code)) = 3

\* a fragment no strategy parses: the raising side of C11
C11_WitnessRaises ==
  /\ ret.done /\ call.op = "parse_code_fragment"
  /\ ret.raised = "ValueError"
  /\ tried = ClaimedOrder

\* what the Type and Dependency walks count on a tree
WalkCounts(variant, body) ==
  IF variant = "type" THEN CountKind(body, {"ann"}) ELSE CountKind(body, {"call"})

WalkField(variant) ==
  IF variant = "type" THEN "number_of_type_annotations" ELSE "number_of_function_calls"

\* C12: for a fragment that does not parse as it is but that a later strategy of
\* the tolerant parser recovers, the Type and the Dependency extractor return the
\* counts of the recovered tree, neither zeros nor an exception.
C12_AllExtractorsUseTolerantParser ==
  (/\ ret.done /\ call.op = "from_str" /\ call.variant \in {"type", "dependency"}
   /\ ~AstParse(call.code).ok
   /\ parse_code_fragment(call.code).raised = "none") =>
    /\ ret.raised = "none"
    /\ ret.value.vals[WalkField(call.variant)] =
         WalkCounts(call.variant, parse_code_fragment(call.code).body)

\* the lines that are open at line j: the line itself and, for every smaller
\* indentation, the last line before j that has it
OpenAt(code, j) ==
  {j} \cup {a \in 1..(j - 1) :
              /\ code[a].ind < code[j].ind
              /\ \A b \in (a + 1)..j : code[b].ind > code[a].ind}

\* the largest number of control-flow lines open at once
MaxOpen(code) ==
  SetMax({Cardinality({a \in OpenAt(code, j) : code[a].kind \in ControlFlowNodes}) :
            j \in 1..Len(code)})

\* C13: the Structure walk counts every control-flow node in
\* number_of_control_statements, and max_nested_depth is the largest number of
\* control-flow nodes open at once on a path from the root; three nested ifs give
\* 3 and 3.
C13_DepthIsMaxOpenControlFlow ==
  (ret.done /\ call.op = "extract_file_metrics") =>
    /\ ret.raised = "none"
    /\ ret.value.vals["number_of_control_statements"] = CountKind(call.code, ControlFlowNodes)
    /\ ret.value.vals["max_nested_depth"] = MaxOpen(call.code)

\* three ifs nested in each other and nothing else
C13_Witness ==
  /\ ret.done /\ call.op = "extract_file_metrics"
  /\ call.code = <<Ln(0, "if"), Ln(IndentWidth, "if"), Ln(2 * IndentWidth, "if"),
                   Ln(3 * IndentWidth, "pass")>>
  /\ ret.value.vals["max_nested_depth"] = 3
  /\ ret.value.vals["number_of_control_statements"] = 3

\* there is a walk of exactly k edges from s to t
WalkOfLen(g, s, t, k) ==
  \E p \in [1..(k + 1) -> g.nodes] :
    /\ p[1] = s /\ p[k + 1] = t
    /\ \A j \in 1..k : <<p[j], p[j + 1]>> \in g.edges

\* the ordered pairs of distinct nodes with a path from the first to the second
ReachablePairs(g) ==
  {q \in g.nodes \X g.nodes :
     q[1] # q[2] /\ \E k \in 1..Cardinality(g.nodes) : WalkOfLen(g, q[1], q[2], k)}

\* the number of edges of a shortest path
Distance(g, s, t) ==
  CHOOSE k \in 1..Cardinality(g.nodes) :
    WalkOfLen(g, s, t, k) /\ \A j \in 1..(k - 1) : ~WalkOfLen(g, s, t, j)

LongestShortestPath(g) ==
  IF ReachablePairs(g) = {} THEN 0
  ELSE SetMax({Distance(g, q[1], q[2]) : q \in ReachablePairs(g)})

\* C14: add_call_graph completes for every call graph, the empty one and the
\* ones without edges included; max_call_depth is the longest shortest path, in
\* edges, between reachable distinct nodes, 0 when there is none; a graph without
\* edges has no circular dependency and depth 0.
C14_CallGraphAnalysisCompletes ==
  (ret.done /\ call.op = "add_call_graph") =>
    /\ ret.raised = "none"
    /\ ret.value.vals["max_call_depth"] = LongestShortestPath(call.call_graph)
    /\ call.call_graph.edges = {} =>
         /\ ret.value.vals["number_of_circular_dependencices"] = 0
         /\ ret.value.vals["max_call_depth"] = 0

\* the nodes the edges of E touch
Touched(E) == {e[1] : e \in E} \cup {e[2] : e \in E}

\* the sets of edges that are one simple cycle: every node touched is left once
\* and entered once, and the edges lead from every node to every other
SimpleCycles(g) ==
  {E \in SUBSET g.edges :
     /\ E # {}
     /\ \A v \in Touched(E) :
          /\ Cardinality({e \in E : e[1] = v}) = 1
          /\ Cardinality({e \in E : e[2] = v}) = 1
     /\ \A u, v \in Touched(E) :
          \E k \in 1..Cardinality(E) : WalkOfLen([nodes |-> Touched(E), edges |-> E], u, v, k)}

\* C15: the count of circular dependencies the analysis produces is the number
\* of simple cycles of the call graph, a self-loop being a cycle of length 1.
C15_CountsSimpleCycles ==
  (ret.done /\ call.op = "add_call_graph" /\ ret.raised = "none") =>
    ret.value.vals["number_of_circular_dependencices"]
      = Cardinality(SimpleCycles(call.call_graph))

\* the graph f -> g -> f, analysed by DependencyMetrics.add_call_graph: one cycle
C15_Witness ==
  /\ ret.done /\ call.op = "add_call_graph" /\ call.module = "metrics"
  /\ call.call_graph = [nodes |-> {"f", "g"}, edges |-> {<<"f", "g">>, <<"g", "f">>}]
  /\ ret.raised = "none"
  /\ ret.value.vals["number_of_circular_dependencices"] = 1

\* a call expression lies in the body of a function
CallUnderDef(code) ==
  \E j \in 1..Len(code) :
    code[j].kind = "call" /\ \E a \in OpenAt(code, j) : code[a].kind = "def"

\* C16: a call to a name inside a function body adds the edge from the
\* innermost enclosing function to the callee: for a fragment such as
\* "def f(): g()" the walk yields the graph f -> g, so the record is returned
\* with number_of_unique_calls = 2.
C16_CallsInFunctionsAddEdges ==
  (/\ ret.done /\ call.op = "from_str" /\ call.variant = "dependency"
   /\ NonBlank(call.code) = call.code
   /\ AstParse(call.code).ok
   /\ CallUnderDef(call.code)) =>
    /\ ret.raised = "none"
    /\ ret.value.vals["number_of_unique_calls"] = 2

\* C17: adding or subtracting two records of different variants, in either
\* order, raises an error and yields no record, and leaves both operands as
\* they were.
C17_MixedVariantsRejected ==
  [][(call.op \in {"add", "sub"} /\ call.a.variant # call.b.variant /\ ret'.done) =>
       /\ ret'.raised = "TypeError"
       /\ ret'.value = <<>>
       /\ call' = call]_vars

\* a Structure record minus an Error record, and the other way round for add
C17_Witness ==
  /\ ret.done /\ call.op = "sub"
  /\ call.a.variant = "code" /\ call.b.variant = "error"
  /\ call.a # Metric("code")
  /\ ret.raised = "TypeError"

\* the fields that hold None in an operand of the call
OperandNones ==
  IF call.op = "abs" THEN Nones(call.a) ELSE Nones(call.a) \cup Nones(call.b)

\* what the operation computes on a field that holds a number in every operand
Arithmetic(f) ==
  CASE call.op = "add" -> call.a.vals[f] + call.b.vals[f]
    [] call.op = "sub" -> call.a.vals[f] - call.b.vals[f]
    [] call.op = "abs" -> IF call.a.vals[f] < 0 THEN 0 - call.a.vals[f] ELSE call.a.vals[f]

\* C18: add, subtract and absolute value on records in which a field holds None
\* return a record; the field is None in it and every other field is computed as
\* usual.
C18_NonePropagates ==
  (/\ ret.done /\ call.op \in {"add", "sub", "abs"}
   /\ call.op # "abs" => call.a.variant = call.b.variant
   /\ OperandNones # {}) =>
    /\ ret.raised = "none"
    /\ Nones(ret.value) = OperandNones
    /\ \A f \in Fields(call.a.variant) \ OperandNones : ret.value.vals[f] = Arithmetic(f)

\* the orders in which n files can be accumulated
FileOrders(n) ==
  {p \in [1..n -> 1..n] : \A i, j \in 1..n : i # j => p[i] # p[j]}

Permuted(patch, p) == [files |-> [j \in 1..Len(patch.files) |-> patch.files[p[j]]]]

\* two calls both return, with the same row, or both raise
SameOutcome(r1, r2) ==
  /\ (r1.raised = "none") = (r2.raised = "none")
  /\ r1.row = r2.row

C20_EndToEndTryExcept ==
  (ret.done /\ call.op = "apply_metrics" /\ call.patch = EndToEndPatch
     /\ call.metrics = AllMetrics) =>
    /\ ret.raised = "none"
    /\ ret.row[<<"error", "number_of_try_blocks", "diff">>] = 1
    /\ ret.row[<<"error", "number_of_broad_excepts", "diff">>] = 1
    /\ ret.row[<<"dependency", "number_of_function_calls", "diff">>] = 1


\* the instance a row was made from
InstanceOf(row) == call.instances[row[<<"", "instance_id", "">>]]

\* two instances that differ at most in their id
SameButId(i1, i2) ==
  [i1 EXCEPT !.instance_id = 0] = [i2 EXCEPT !.instance_id = 0]

\* the row of compute_features([instance])
SoloRow(instance) ==
  (<<"", "instance_id", "">> :> instance.instance_id)
    @@ to_dict(InstanceMetrics_from_instance(instance), "instance", "")
    @@ to_dict(PatchMetrics_from_patch(Patch_from_instance(instance).value), "patch", "")
    @@ apply_metrics(Patch_from_instance(instance).value, AllMetrics).row

Resolved(list) == {list[j] : j \in DOMAIN list}

\* the targets that resolve an id
ResolvingTargets(targets, i) == {k \in DOMAIN targets : i \in Resolved(targets[k])}

\* C22: unresolved_instances returns the ids that the source does not resolve
\* and that every target resolves, or with a threshold t at least t distinct
\* targets, also when a resolved list repeats an id.
C22_GapIsUnresolvedBySourceResolvedByTargets ==
  (ret.done /\ call.op = "unresolved_instances") =>
    ret.value =
      {i \in Resolved(Chain(call.targets)) \ Resolved(call.source) :
         Cardinality(ResolvingTargets(call.targets, i))
           >= (IF call.threshold.given THEN call.threshold.value ELSE Len(call.targets))}


\* the steps of the given shapes that speak: their source is the user or the agent
Speaking(steps, shapes) ==
  SelectSeq(steps, LAMBDA st : st.shape \in shapes /\ st.source \in {"user", "agent"})

\* one message per step: the role of its source, its message ('' if it has none)
MessagesOf(steps) ==
  [j \in 1..Len(steps) |->
     [role |-> IF steps[j].source = "user" THEN "user" ELSE "assistant",
      content |-> IF steps[j].message = Absent THEN "" ELSE steps[j].message]]

\* C23 as stated: extract_conversation gives one message per dictionary step
\* whose source is 'user' or 'agent', in order, and nothing else; [] for an
\* empty list and for an input that is no list.
C23_OneMessagePerDictionaryStep ==
  (ret.done /\ call.op = "extract_conversation") =>
    ret.value = IF call.history.is_list
                  THEN MessagesOf(Speaking(call.history.steps, {"dict"}))
                ELSE <<>>

\* C23 amended: extract_conversation gives one message per step that is a
\* dictionary, or a list of two elements whose first element is a dictionary,
\* with source 'user' or 'agent', in order, and nothing else; [] for an empty
\* list and for an input that is no list.
C23_OneMessagePerSpeakingStep ==
  (ret.done /\ call.op = "extract_conversation") =>
    ret.value = IF call.history.is_list
                  THEN MessagesOf(Speaking(call.history.steps, {"dict", "pair"}))
                ELSE <<>>

\* a conversation of two messages made from a history that also has a step of
\* another source, the second message from a two-element step
C23_Witness ==
  /\ ret.done /\ call.op = "extract_conversation" /\ call.history.is_list
  /\ Len(call.history.steps) = 3 /\ Len(ret.value) = 2
  /\ call.history.steps[1].shape = "dict" /\ call.history.steps[1].source = "user"
  /\ call.history.steps[2].source = "environment"
  /\ call.history.steps[3].shape = "pair"
  /\ ret.value[2].role = "assistant"


\* the lines of the text that are handler clauses of the kinds
ClausesIn(code, kinds) == Len(SelectSeqOf(code, kinds))

\* C24: the Error walk counts every handler clause as broad or as specific and
\* never as both: at every step the handlers counted are the broad ones plus the
\* specific ones, and when the walk is complete the broad ones are the bare
\* clauses and those naming Exception, the specific ones all others.
C24_HandlersAreBroadOrSpecific ==
  (call.op = "visit" /\ call.visitor = "error") =>
    /\ ret.state.number_of_except_handlers
         = ret.state.number_of_broad_excepts + ret.state.number_of_specific_excepts
    /\ ret.done =>
         /\ ret.state.number_of_broad_excepts
              = ClausesIn(call.code, {"exceptbare", "except"})
         /\ ret.state.number_of_specific_excepts = ClausesIn(call.code, {"exceptval"})

\* a complete walk over a bare clause, one naming Exception and a specific one
C24_Witness ==
  /\ call.op = "visit" /\ call.visitor = "error" /\ ret.done
  /\ ClausesIn(call.code, {"exceptbare"}) = 1 /\ ClausesIn(call.code, {"except"}) = 1
  /\ ret.state.number_of_broad_excepts = 2
  /\ ret.state.number_of_specific_excepts = 1

\* the largest number of exception blocks inside one another in the text: the
\* block of a line is inside those opened at smaller indentation and not yet
\* closed by their handlers
OpenTries(code, j) ==
  Cardinality({k \in 1..j : /\ code[k].kind \in TryKinds
                            /\ \/ k = j
                               \/ /\ code[k].kind = "tryblk"
                                  /\ code[k].ind < code[j].ind
                                  /\ \A m \in (k + 1)..j : code[m].ind > code[k].ind})

DeepestTry(code) ==
  SetMax({0} \cup {OpenTries(code, j) : j \in {k \in 1..Len(code) : code[k].kind \in TryKinds}})

\* C25: in the Error walk the depth counter goes up by one on entering an
\* exception block and down by one on leaving it: it is never negative, it is 0
\* when the walk is complete, and max_except_depth is then the largest number
\* of exception blocks inside one another, between 0 and number_of_try_blocks.
C25_ExceptDepthIsBalanced ==
  [][(call.op = "visit" /\ call.visitor = "error") =>
       /\ ret'.state.current_except_depth >= 0
       /\ ret'.state.current_except_depth <= ret'.state.max_except_depth
       /\ ret'.state.max_except_depth <= ret'.state.number_of_try_blocks
       /\ ret'.state.current_except_depth - ret.state.current_except_depth
            = IF idx' > idx /\ call.nodes[idx].kind = "try" THEN 1
              ELSE IF Len(tried') < Len(tried) /\ tried[Len(tried)].kind = "try" THEN 0 - 1
              ELSE 0
       /\ ret'.done =>
            /\ ret'.state.current_except_depth = 0
            /\ ret'.state.max_except_depth = DeepestTry(call.code)]_vars

\* a complete walk over three blocks inside one another
C25_Witness ==
  /\ call.op = "visit" /\ call.visitor = "error" /\ ret.done
  /\ ret.state.max_except_depth = 3
  /\ ret.state.number_of_try_blocks = 3

\* a complete walk over two blocks side by side
C25_WitnessSiblings ==
  /\ call.op = "visit" /\ call.visitor = "error" /\ ret.done
  /\ ret.state.max_except_depth = 1
  /\ ret.state.number_of_try_blocks = 2


\* C30: at every step of a Structure walk 0 <= current_depth <=
\* max_nested_depth <= number_of_control_statements; no counter goes down,
\* except current_depth when a control-flow node is left; and current_depth is
\* 0 when the walk of the tree is complete.
C30_StructureCountersAreOrdered ==
  [][(call.op = "visit" /\ call.visitor = "structure") =>
       /\ 0 <= ret'.state.current_depth
       /\ ret'.state.current_depth <= ret'.state.max_nested_depth
       /\ ret'.state.max_nested_depth <= ret'.state.number_of_control_statements
       /\ ret'.state.max_nested_depth >= ret.state.max_nested_depth
       /\ ret'.state.number_of_control_statements >= ret.state.number_of_control_statements
       /\ ret'.state.number_of_functions >= ret.state.number_of_functions
       /\ Len(ret'.state.function_lines) >= Len(ret.state.function_lines)
       /\ ret.state.variables \subseteq ret'.state.variables
       /\ ret'.state.current_depth < ret.state.current_depth =>
            /\ Len(tried') < Len(tried)
            /\ tried[Len(tried)].kind \in ControlFlowNodes
            /\ ret'.state.current_depth = ret.state.current_depth - 1
       /\ ret'.done => ret'.state.current_depth = 0]_vars

\* a complete walk in which the depth went up to 2 and down again, over more
\* control-flow nodes than the depth
C30_Witness ==
  /\ call.op = "visit" /\ call.visitor = "structure" /\ ret.done
  /\ ret.state.max_nested_depth = 2
  /\ ret.state.number_of_control_statements = 3
  /\ ret.state.current_depth = 0


\* the five bucket counters of the Type walk
TypeBuckets ==
  {"number_of_generic_types", "number_of_optional_types", "number_of_union_types",
   "number_of_callable_types", "number_of_custom_types"}

RECURSIVE SumOver(_, _)
SumOver(vals, F) ==
  IF F = {} THEN 0
  ELSE LET f == CHOOSE g \in F : TRUE IN vals[f] + SumOver(vals, F \ {f})

\* C26: the Type walk puts the annotation of every annotated assignment into
\* exactly one of the five buckets, by its head symbol, subscripted annotations
\* included: the annotated assignments of a text that parses are as many as the
\* five counters together, the generic ones (List, List[int]) in
\* number_of_generic_types and the optional ones in number_of_optional_types.
C26_EveryAnnotationHasOneBucket ==
  (ret.done /\ call.op = "from_str" /\ call.variant = "type" /\ AstParse(call.code).ok) =>
    /\ ret.raised = "none"
    /\ SumOver(ret.value.vals, TypeBuckets) = CountKind(call.code, AnnKinds)
    /\ ret.value.vals["number_of_generic_types"] = CountKind(call.code, {"anngen", "annsub"})
    /\ ret.value.vals["number_of_optional_types"]
         = CountKind(call.code, {"annopt", "annoptsub"})


RECURSIVE Patched(_, _, _)
\* the pre-image with the changes made, from the last change back to the first:
\* the removed lines give way to the added ones, everything else stays
Patched(pre, changes, k) ==
  IF k = 0 THEN pre
  ELSE LET c == changes[k]
       IN Patched(SubSeq(pre, 1, c.at + c.ctx - 1) \o c.add
                    \o SubSeq(pre, c.at + c.ctx + c.rem, Len(pre)),
                  changes, k - 1)

\* C27: Patch.from_instance stores for a file before = the pre-image and after =
\* the pre-image with every hunk applied at its place: removed lines gone, added
\* lines in their place, context and all other lines kept, also with several
\* hunks.
C27_AfterIsPreImageWithHunksApplied ==
  (ret.done /\ call.op = "from_instance") =>
    /\ ret.raised = "none"
    /\ ret.value.before = call.pre
    /\ ret.value.after = Patched(call.pre, call.changes, Len(call.changes))


RECURSIVE LinesWithRole(_, _)
\* the hunk lines of the sections that have the role
LinesWithRole(secs, role) ==
  IF secs = <<>> THEN 0
  ELSE Len(SelectSeq(secs[1].body, LAMBDA l : l.role = role))
       + LinesWithRole(Tail(secs), role)

\* C28: PatchMetrics.from_patch gives the number of files of the patch and the
\* numbers of added and of removed lines of its text, the '+++' and '---'
\* header lines not counted.
C28_PatchCountsLeaveOutHeaders ==
  (ret.done /\ call.op = "PatchMetrics.from_patch") =>
    /\ ret.value.vals["number_of_files"] = Len(call.sections)
    /\ ret.value.vals["number_of_added_lines"] = LinesWithRole(call.sections, "added")
    /\ ret.value.vals["number_of_removed_lines"] = LinesWithRole(call.sections, "removed")


\* the tree of a fragment that a wrapper recovered, without the wrapper: the
\* statements of the fragment, one level up
Unwrapped(body) ==
  [j \in 1..(Len(body) - 1) |-> [body[j + 1] EXCEPT !.level = @ - 1]]

\* C29: a fragment that parse_code_fragment recovers through the synthetic
\* conditional or the synthetic function gets the number_of_control_statements,
\* max_nested_depth, number_of_functions and function lengths that its own
\* statements give: the wrapper adds nothing to the counters.
C29_WrapperAddsNothing ==
  (/\ ret.done /\ call.op = "from_str" /\ call.variant = "code"
   /\ parse_code_fragment(call.code).via \in {"ifwrap", "defwrap"}) =>
    LET own == StructureVisit(Unwrapped(parse_code_fragment(call.code).body), 1, <<>>,
                              StructureReset)
    IN /\ ret.raised = "none"
       /\ ret.value.vals["number_of_control_statements"] = own.number_of_control_statements
       /\ ret.value.vals["max_nested_depth"] = own.max_nested_depth
       /\ ret.value.vals["number_of_functions"] = own.number_of_functions
       /\ ret.value.vals["max_function_length"] = SeqMax(own.function_lines)

====
